---- MODULE Spec2Model ----
(***************************************************************************)
(* A model of expert-consensus/openrouter.py: the panel registry          *)
(* (load_panel, get_aliases, get_enabled, get_enabled_aliases,             *)
(* _ensure_panel, resolve_model), the fan-out coordinator (fan_out) and    *)
(* the synthesis engine (synthesize), as driven by main.                   *)
(*                                                                         *)
(* A Python str is a sequence of one-character strings, so that split,     *)
(* lower and + are computed and not assumed.  A Python dict whose          *)
(* iteration order matters (results) is a sequence of <<key, value>>       *)
(* pairs in insertion order; a dict that is only looked up                 *)
(* (_MODEL_ALIASES) is a function.                                         *)
(***************************************************************************)
EXTENDS Integers, Sequences, FiniteSets, TLC

VARIABLES
    config,          \* expert-panel.json as the file system holds it
    _PANEL,          \* module global, openrouter.py:128
    _MODEL_ALIASES,  \* module global, openrouter.py:129
    _DEFAULT_MODEL,  \* module global, openrouter.py:130
    proc,            \* "running", "exit1" after sys.exit(1), "raised" after
                     \* an exception nobody catches
    call,            \* the last registry call made: [op, arg, ret]
    caller,          \* who called fan_out: "main", "direct" or "none" yet
    pc,              \* where the calling thread stands
    aliases,         \* fan_out's aliases argument
    output_dir,      \* whether fan_out was given an output directory
    futures,         \* per submitted query_model call: [state, model, reply, result]
    results,         \* fan_out's results dict, in insertion order
    console,         \* the result blocks fan_out has printed, in order
    writes,          \* the <alias>.md files fan_out has written, in order
    synth,           \* synthesize: [state, calls, input, model, ret, saved]
    api_key,         \* whether OPENROUTER_API_KEY is set in the environment
    err,             \* what the process reported when it ended, "none" before
    single,          \* main's other modes: [mode, state, calls, result]
    gen,             \* one call of generate, step by step
    lazy             \* threads inside resolve_model: [pcs, tokens, locals, rets,
                     \* loads, rewritten, torn]

registryVars == <<config, _PANEL, _MODEL_ALIASES, _DEFAULT_MODEL, proc, call,
                  api_key, err, single, gen, lazy>>
fanVars == <<caller, pc, aliases, output_dir, futures, results, console, writes, synth>>
vars == <<registryVars, fanVars>>

----------------------------------------------------------------------------
(* Bounds of the model.                                                    *)

MaxPanelLen == 2     \* entries in a panel file
MaxBaseLen == 1      \* characters before the colon of a token
MaxAliases == 3      \* aliases in a list handed to fan_out directly

----------------------------------------------------------------------------
(* Python values.                                                          *)

None == [none |-> TRUE]
Some(v) == [some |-> v]

RECURSIVE SeqsUpTo(_, _)
SeqsUpTo(S, n) ==
    IF n = 0 THEN {<<>>}
    ELSE LET shorter == SeqsUpTo(S, n - 1)
         IN  shorter \cup {Append(s, x) : s \in shorter, x \in S}

\* str.lower() on the characters the model uses
LowerChar(ch) ==
    CASE ch = "A" -> "a"
      [] ch = "B" -> "b"
      [] ch = "O" -> "o"
      [] OTHER -> ch

StrLower(s) == [i \in 1..Len(s) |-> LowerChar(s[i])]

\* ':' in s
HasColon(s) == \E i \in 1..Len(s) : s[i] = ":"

\* s.split(':', 1), for a string that holds a colon
SplitFirstColon(s) ==
    LET i == CHOOSE k \in 1..Len(s) : s[k] = ":" /\ \A j \in 1..(k - 1) : s[j] # ":"
    IN  <<SubSeq(s, 1, i - 1), SubSeq(s, i + 1, Len(s))>>

\* d.get(key, default) on a dict held as a function
DictGet(d, key, default) == IF key \in DOMAIN d THEN d[key] ELSE default

----------------------------------------------------------------------------
(* The panel registry.                                                     *)

online == <<"o", "n", "l", "i", "n", "e">>
nitro == <<"n", "i", "t", "r", "o">>
floor == <<"f", "l", "o", "o", "r">>
free == <<"f", "r", "e", "e">>
extended == <<"e", "x", "t", "e", "n", "d", "e", "d">>

MODEL_VARIANTS ==
    (online :> (<<":">> \o online)) @@
    (nitro :> (<<":">> \o nitro)) @@
    (floor :> (<<":">> \o floor)) @@
    (free :> (<<":">> \o free)) @@
    (extended :> (<<":">> \o extended))

\* The inputs: panel files of at most MaxPanelLen entries.  An entry has an
\* alias and a model, and an enabled flag or none (load_panel requires only
\* 'alias' and 'model'); aliases are colon-free, of either letter case, and
\* not necessarily distinct.
AliasNames == {<<"a">>, <<"A">>}
ModelIds == {<<"p", "/", "x">>, <<"q", "/", "y">>}
PanelEntries ==
    [alias : AliasNames, model : ModelIds] \cup
    [alias : AliasNames, model : ModelIds, enabled : BOOLEAN]
Panels == SeqsUpTo(PanelEntries, MaxPanelLen)

\* expert-panel.json: absent, not parseable / an entry without alias or
\* model, or a list of entries
Configs ==
    {[kind |-> "missing"], [kind |-> "invalid"]} \cup
    {[kind |-> "ok", panel |-> p] : p \in Panels}

\* The tokens handed to resolve_model: a base of at most MaxBaseLen
\* characters, alone or followed by a colon and a tail.
BaseChars == {"a", "A", "b"}
Bases == SeqsUpTo(BaseChars, MaxBaseLen)
Tails ==
    DOMAIN MODEL_VARIANTS \cup
    {<<>>, <<"x">>, <<"O", "n", "l", "i", "n", "e">>, online \o <<":">> \o nitro}
Tokens == Bases \cup {b \o <<":">> \o t : b \in Bases, t \in Tails}

\* {entry['alias']: entry['model'] for entry in panel}: a later entry with
\* the same alias overwrites an earlier one
get_aliases(panel) ==
    LET keys == {panel[i].alias : i \in 1..Len(panel)}
        last(a) == CHOOSE i \in 1..Len(panel) :
                       /\ panel[i].alias = a
                       /\ \A j \in (i + 1)..Len(panel) : panel[j].alias # a
    IN  [a \in keys |-> panel[last(a)].model]

\* a variant whose default is False
EntryEnabled_DefaultFalse(e) == IF "enabled" \in DOMAIN e THEN e.enabled ELSE FALSE

\* e.get('enabled', True)
EntryEnabled(e) == IF "enabled" \in DOMAIN e THEN e.enabled ELSE TRUE

get_enabled(panel) == SelectSeq(panel, EntryEnabled)

get_enabled_aliases(panel) ==
    LET enabled == get_enabled(panel)
    IN  [i \in 1..Len(enabled) |-> enabled[i].alias]

\* a variant that takes the first entry, enabled or not
DefaultModelOf_First(panel) == panel[1].model

\* enabled[0]['model'] if enabled else _PANEL[0]['model'] (line 139), for a
\* non-empty panel; on an empty one _PANEL[0] raises IndexError
DefaultModelOf(panel) ==
    LET enabled == get_enabled(panel)
    IN  IF enabled # <<>> THEN enabled[1].model ELSE panel[1].model

\* a variant that loses the variant suffix
ResolveIn_DropsSuffix(table, model_str) ==
    IF HasColon(model_str)
    THEN LET parts == SplitFirstColon(model_str)
         IN  IF parts[2] \in DOMAIN MODEL_VARIANTS
             THEN DictGet(table, StrLower(parts[1]), parts[1])
             ELSE model_str
    ELSE DictGet(table, StrLower(model_str), model_str)

\* a variant that resolves the base of a token with an unknown variant
ResolveIn_ResolvesUnknown(table, model_str) ==
    IF HasColon(model_str)
    THEN LET parts == SplitFirstColon(model_str)
         IN  DictGet(table, StrLower(parts[1]), parts[1]) \o
                 (IF parts[2] \in DOMAIN MODEL_VARIANTS
                  THEN MODEL_VARIANTS[parts[2]]
                  ELSE <<":">> \o parts[2])
    ELSE DictGet(table, StrLower(model_str), model_str)

\* resolve_model after _ensure_panel, on the loaded alias table
ResolveIn(table, model_str) ==
    IF HasColon(model_str)
    THEN LET parts == SplitFirstColon(model_str)
             base == parts[1]
             variant == parts[2]
         IN  IF variant \in DOMAIN MODEL_VARIANTS
             THEN DictGet(table, StrLower(base), base) \o MODEL_VARIANTS[variant]
             ELSE model_str
    ELSE DictGet(table, StrLower(model_str), model_str)

\* What _ensure_panel leaves behind, as [panel, table, default, outcome]:
\* outcome "ok", "exit1" (load_panel's sys.exit(1)) or "IndexError" (line 139
\* on an empty panel, after lines 136-137 have assigned the other globals).
EnsurePanelResult(cfg, panel, table, default) ==
    IF panel # None
    THEN [panel |-> panel, table |-> table, default |-> default, outcome |-> "ok"]
    ELSE IF cfg.kind # "ok"
    THEN [panel |-> panel, table |-> table, default |-> default, outcome |-> "exit1"]
    ELSE IF cfg.panel = <<>>
    THEN [panel |-> Some(cfg.panel), table |-> Some(get_aliases(cfg.panel)),
          default |-> default, outcome |-> "IndexError"]
    ELSE [panel |-> Some(cfg.panel), table |-> Some(get_aliases(cfg.panel)),
          default |-> Some(DefaultModelOf(cfg.panel)), outcome |-> "ok"]

\* what load_panel prints before sys.exit(1): lines 97-98 or line 108
LoadPanelError(cfg) == IF cfg.kind = "missing" THEN "config_missing" ELSE "config_invalid"

EnsureGlobals(r) ==
    /\ _PANEL' = r.panel
    /\ _MODEL_ALIASES' = r.table
    /\ _DEFAULT_MODEL' = r.default

\* The registry is exercised by one call per run, after an explicit
\* _ensure_panel() or without one (the lazy load inside resolve_model):
\* the globals never change once loaded, so a longer call sequence
\* only repeats these.
\* a call of _ensure_panel()
EnsurePanel ==
    /\ proc = "running"
    /\ single.mode = "none"
    /\ call.op = "none"
    /\ pc = "start"
    /\ LET r == EnsurePanelResult(config, _PANEL, _MODEL_ALIASES, _DEFAULT_MODEL)
       IN  /\ EnsureGlobals(r)
           /\ call' = [op |-> "_ensure_panel", arg |-> <<>>, ret |-> r.outcome]
           /\ proc' = IF r.outcome = "exit1" THEN "exit1" ELSE proc
           /\ err' = IF r.outcome = "exit1" THEN LoadPanelError(config) ELSE err
    /\ UNCHANGED <<config, fanVars, api_key, single, gen, lazy>>

\* a call of resolve_model(t)
ResolveModel(t) ==
    /\ proc = "running"
    /\ call.op \in {"none", "_ensure_panel"}
    /\ LET r == EnsurePanelResult(config, _PANEL, _MODEL_ALIASES, _DEFAULT_MODEL)
       IN  /\ EnsureGlobals(r)
           /\ call' = [op |-> "resolve_model", arg |-> t,
                       ret |-> IF r.outcome = "ok"
                               THEN Some(ResolveIn(r.table.some, t))
                               ELSE None,
                       outcome |-> r.outcome]
           /\ proc' = IF r.outcome = "exit1" THEN "exit1" ELSE proc
           /\ err' = IF r.outcome = "exit1" THEN LoadPanelError(config) ELSE err
    /\ UNCHANGED <<config, fanVars, api_key, single, gen, lazy>>

\* a call of get_enabled_aliases(_PANEL), as main makes it at line 502
GetEnabledAliases ==
    /\ proc = "running"
    /\ call.op = "_ensure_panel"
    /\ _PANEL # None
    /\ call' = [op |-> "get_enabled_aliases", arg |-> _PANEL.some,
                ret |-> get_enabled_aliases(_PANEL.some)]
    /\ UNCHANGED <<config, _PANEL, _MODEL_ALIASES, _DEFAULT_MODEL, proc, fanVars,
                   api_key, err, single, gen, lazy>>

\* module import: the globals of lines 128-130, nothing called yet
Unloaded ==
    /\ _PANEL = None
    /\ _MODEL_ALIASES = None
    /\ _DEFAULT_MODEL = None
    /\ proc = "running"
    /\ call = [op |-> "none"]

\* nothing of main, generate or the worker threads has run
Idle ==
    /\ err = "none"
    /\ single = [mode |-> "none", state |-> "idle", calls |-> 0, result |-> None]
    /\ gen = [pc |-> "idle"]
    /\ lazy = [pcs |-> <<>>, tokens |-> <<>>, locals |-> <<>>, rets |-> <<>>,
               loads |-> 0, rewritten |-> FALSE, torn |-> FALSE]

NoFanOut ==
    /\ caller = "none"
    /\ pc = "start"
    /\ aliases = <<>>
    /\ output_dir = FALSE
    /\ futures = <<>>
    /\ results = <<>>
    /\ console = <<>>
    /\ writes = <<>>
    /\ synth = [state |-> "idle", calls |-> 0, input |-> None, model |-> None,
                ret |-> None, saved |-> FALSE]

RegistryInit ==
    /\ config \in Configs
    /\ api_key = TRUE
    /\ Unloaded
    /\ NoFanOut
    /\ Idle

RegistryNext ==
    \/ EnsurePanel
    \/ \E t \in Tokens : ResolveModel(t)
    \/ GetEnabledAliases

SpecRegistry == RegistryInit /\ [][RegistryNext]_vars

----------------------------------------------------------------------------
(* The fan-out coordinator and the synthesis engine.                       *)

\* str.upper() on the characters the model uses
UpperChar(ch) ==
    CASE ch = "a" -> "A"
      [] ch = "b" -> "B"
      [] ch = "c" -> "C"
      [] OTHER -> ch

StrUpper(s) == [i \in 1..Len(s) |-> UpperChar(s[i])]

\* A dict in insertion order: a sequence of <<key, value>>.
ODictHas(d, key) == \E k \in 1..Len(d) : d[k][1] = key

\* d[key] = val: a new key goes last, a known key keeps its place
ODictSet(d, key, val) ==
    IF ODictHas(d, key)
    THEN [k \in 1..Len(d) |-> IF d[k][1] = key THEN <<key, val>> ELSE d[k]]
    ELSE Append(d, <<key, val>>)

ODictGet(d, key, default) ==
    IF ODictHas(d, key) THEN d[CHOOSE k \in 1..Len(d) : d[k][1] = key][2] ELSE default

ODictKeys(d) == [k \in 1..Len(d) |-> d[k][1]]

\* What the backend makes of one chat.completions.create call, as generate
\* hands it back: a reply, or an exception caught at line 270.
Contents == {"r1", "r2"}
Errors == {"timeout"}
Success(content, model) == [ok |-> TRUE, content |-> content, model |-> model]
Failure(error) == [ok |-> FALSE, error |-> error]
BackendOutcomes == [ok : {TRUE}, content : Contents] \cup [ok : {FALSE}, error : Errors]

GenerateResult(outcome, model) ==
    IF outcome.ok THEN Success(outcome.content, model) ELSE Failure(outcome.error)

\* The panels main and the direct callers of fan_out run against, and the
\* alias lists a direct caller passes (main passes the enabled aliases).
FanEntry(a, m) == [alias |-> a, model |-> m]
FanPanels ==
    { <<FanEntry(<<"a">>, <<"p", "/", "x">>),
        [alias |-> <<"b">>, model |-> <<"q", "/", "y">>, enabled |-> TRUE],
        [alias |-> <<"A">>, model |-> <<"q", "/", "y">>, enabled |-> FALSE],
        FanEntry(<<"c">>, <<"p", "/", "x">>)>>,
      <<[alias |-> <<"a">>, model |-> <<"p", "/", "x">>, enabled |-> FALSE]>>,
      <<>> }
FanConfigs == {[kind |-> "missing"], [kind |-> "invalid"]} \cup {[kind |-> "ok", panel |-> p] : p \in FanPanels}
FanTokens == {<<"a">>, <<"b">>}
AliasLists == SeqsUpTo(FanTokens, MaxAliases)
SynthModels == {None, Some(<<"b">>)}

\* fan_out up to line 304: results = {}, the executor, one future per
\* element of the list.  ThreadPoolExecutor(max_workers=0) raises ValueError.
FanOutEnter(who, as, od) ==
    IF Len(as) = 0
    THEN /\ proc' = "raised"
         /\ err' = "ValueError"
         /\ caller' = who
         /\ UNCHANGED <<pc, aliases, output_dir, futures, results>>
    ELSE /\ proc' = proc
         /\ err' = err
         /\ caller' = who
         /\ pc' = "fan_out_collect"
         /\ aliases' = as
         /\ output_dir' = od
         /\ results' = <<>>
         /\ futures' = [i \in 1..Len(as) |->
                           [state |-> "submitted", model |-> None, reply |-> None,
                            result |-> None]]

\* a variant that builds the client without looking at the key
ClientInit_Lenient(key) == "ok"

\* OpenRouterClient.__init__: sys.exit(1) when OPENROUTER_API_KEY is not set
ClientInit(key) == IF key THEN "ok" ELSE "exit1"

\* main, lines 496-515: --all.  OpenRouterClient() ends the process when
\* the key is not set (lines 170-175), _ensure_panel() when the panel
\* cannot be loaded, line 504 when no entry is enabled
MainAll(od) ==
    /\ proc = "running"
    /\ pc = "start"
    /\ single.mode = "none"
    /\ IF ClientInit(api_key) # "ok"
       THEN /\ proc' = "exit1"
            /\ err' = "credential"
            /\ caller' = "main"
            /\ UNCHANGED <<_PANEL, _MODEL_ALIASES, _DEFAULT_MODEL, pc, aliases,
                           output_dir, futures, results>>
       ELSE LET r == EnsurePanelResult(config, _PANEL, _MODEL_ALIASES, _DEFAULT_MODEL)
            IN  /\ EnsureGlobals(r)
                /\ IF r.outcome # "ok"
                   THEN /\ proc' = IF r.outcome = "exit1" THEN "exit1" ELSE "raised"
                        /\ err' = IF r.outcome = "exit1"
                                  THEN LoadPanelError(config) ELSE r.outcome
                        /\ caller' = "main"
                        /\ UNCHANGED <<pc, aliases, output_dir, futures, results>>
                   ELSE IF get_enabled_aliases(r.panel.some) = <<>>
                   THEN /\ proc' = "exit1"
                        /\ err' = "no_models_enabled"
                        /\ caller' = "main"
                        /\ UNCHANGED <<pc, aliases, output_dir, futures, results>>
                   ELSE FanOutEnter("main", get_enabled_aliases(r.panel.some), od)
    /\ UNCHANGED <<config, call, console, writes, synth, api_key, single, gen, lazy>>

\* main, lines 462-474: --panel and --aliases read the panel and need no
\* client
MainInfo ==
    /\ proc = "running"
    /\ pc = "start"
    /\ call.op = "none"
    /\ single.mode = "none"
    /\ LET r == EnsurePanelResult(config, _PANEL, _MODEL_ALIASES, _DEFAULT_MODEL)
       IN  /\ EnsureGlobals(r)
           /\ proc' = CASE r.outcome = "ok" -> "exit0"
                         [] r.outcome = "exit1" -> "exit1"
                         [] OTHER -> "raised"
           /\ err' = CASE r.outcome = "ok" -> err
                        [] r.outcome = "exit1" -> LoadPanelError(config)
                        [] OTHER -> r.outcome
    /\ single' = [single EXCEPT !.mode = "info", !.state = "done"]
    /\ UNCHANGED <<config, call, api_key, gen, lazy, fanVars>>

\* main, lines 476-478: --list-models builds the client and asks the
\* backend for its models; list_models prints an error of the backend and
\* returns, the panel is never read
MainListModels(ok) ==
    /\ proc = "running"
    /\ pc = "start"
    /\ call.op = "none"
    /\ single.mode = "none"
    /\ IF ClientInit(api_key) # "ok"
       THEN /\ proc' = "exit1"
            /\ err' = "credential"
            /\ single' = [single EXCEPT !.mode = "list", !.state = "done"]
       ELSE /\ proc' = "exit0"
            /\ err' = err
            /\ single' = [single EXCEPT !.mode = "list", !.state = "done", !.calls = 1,
                                        !.result = Some(ok)]
    /\ UNCHANGED <<config, _PANEL, _MODEL_ALIASES, _DEFAULT_MODEL, call, api_key,
                   gen, lazy, fanVars>>

SingleModels == {None, Some(<<"a">>)}

\* main, lines 496 and 526-542: the client, _ensure_panel(), the model,
\* and the request of generate
MainSingle(m) ==
    /\ proc = "running"
    /\ pc = "start"
    /\ call.op = "none"
    /\ single.mode = "none"
    /\ IF ClientInit(api_key) # "ok"
       THEN /\ proc' = "exit1"
            /\ err' = "credential"
            /\ single' = [single EXCEPT !.mode = "single", !.state = "done"]
            /\ UNCHANGED <<_PANEL, _MODEL_ALIASES, _DEFAULT_MODEL>>
       ELSE LET r == EnsurePanelResult(config, _PANEL, _MODEL_ALIASES, _DEFAULT_MODEL)
            IN  /\ EnsureGlobals(r)
                /\ IF r.outcome # "ok"
                   THEN /\ proc' = IF r.outcome = "exit1" THEN "exit1" ELSE "raised"
                        /\ err' = IF r.outcome = "exit1"
                                  THEN LoadPanelError(config) ELSE r.outcome
                        /\ single' = [single EXCEPT !.mode = "single", !.state = "done"]
                   ELSE /\ proc' = proc
                        /\ err' = err
                        /\ single' = [mode |-> "single", state |-> "calling", calls |-> 1,
                                      result |-> Some(IF m = None THEN r.default.some
                                                      ELSE ResolveIn(r.table.some, m.some))]
    /\ UNCHANGED <<config, call, api_key, gen, lazy, fanVars>>

\* main, lines 544-562: generate has returned; a Failure is printed and
\* ends the process with sys.exit(1)
MainSingleFinish(outcome) ==
    /\ proc = "running"
    /\ single.mode = "single"
    /\ single.state = "calling"
    /\ single' = [single EXCEPT !.state = "done",
                                !.result = Some(GenerateResult(outcome, single.result.some))]
    /\ proc' = IF outcome.ok THEN "exit0" ELSE "exit1"
    /\ err' = IF outcome.ok THEN err ELSE "generate_failed"
    /\ UNCHANGED <<config, _PANEL, _MODEL_ALIASES, _DEFAULT_MODEL, call, api_key,
                   gen, lazy, fanVars>>

\* fan_out called by another caller than main, the panel being loaded
CallFanOut(as, od) ==
    /\ proc = "running"
    /\ pc = "start"
    /\ _MODEL_ALIASES # None
    /\ single.mode = "none"
    /\ api_key    \* fan_out is handed a client, and no client exists without the key
    /\ FanOutEnter("direct", as, od)
    /\ UNCHANGED <<config, _PANEL, _MODEL_ALIASES, _DEFAULT_MODEL, call,
                   console, writes, synth, api_key, single, gen, lazy>>

\* query_model up to the request of generate (lines 292-295, 261): the
\* worker resolves its alias and sends the request
QueryModelStart(i) ==
    /\ proc = "running"
    /\ i \in 1..Len(futures)
    /\ futures[i].state = "submitted"
    /\ futures' = [futures EXCEPT ![i].state = "calling",
                                  ![i].model = Some(ResolveIn(_MODEL_ALIASES.some, aliases[i]))]
    /\ UNCHANGED <<registryVars, caller, pc, aliases, output_dir, results,
                   console, writes, synth>>

\* the reply or the exception arrives; generate returns, the future is done
QueryModelFinish(i, outcome) ==
    /\ proc = "running"
    /\ i \in 1..Len(futures)
    /\ futures[i].state = "calling"
    /\ futures' = [futures EXCEPT ![i].state = "done",
                                  ![i].reply = Some(outcome),
                                  ![i].result = GenerateResult(outcome, futures[i].model.some)]
    /\ UNCHANGED <<registryVars, caller, pc, aliases, output_dir, results,
                   console, writes, synth>>

\* a variant that keeps only the successes
StoreResult_OkOnly(d, alias, result) == IF result.ok THEN ODictSet(d, alias, result) ELSE d

\* results[alias] = result (line 307)
StoreResult(d, alias, result) == ODictSet(d, alias, result)

\* one round of the as_completed loop (lines 305-307): any future that is
\* done and not yet taken
Collect(i) ==
    /\ proc = "running"
    /\ pc = "fan_out_collect"
    /\ i \in 1..Len(futures)
    /\ futures[i].state = "done"
    /\ futures' = [futures EXCEPT ![i].state = "collected"]
    /\ results' = StoreResult(results, aliases[i], futures[i].result)
    /\ UNCHANGED <<registryVars, caller, pc, aliases, output_dir, console, writes, synth>>

\* as_completed is exhausted and the with block has shut the executor down
FanOutJoined(futs) == \A i \in 1..Len(futs) : futs[i].state = "collected"

FanOutJoin ==
    /\ proc = "running"
    /\ pc = "fan_out_collect"
    /\ FanOutJoined(futures)
    /\ pc' = "fan_out_emit"
    /\ UNCHANGED <<registryVars, caller, aliases, output_dir, futures, results,
                   console, writes, synth>>

\* a variant that walks the results dict, which is in arrival order
EmitOrder_Arrival(as, d) == ODictKeys(d)

\* for alias in aliases (line 310)
EmitOrder(as, d) == as

\* a variant that saves a file for every alias, the failed ones too
Emit_SavesFailures ==
    /\ proc = "running"
    /\ pc = "fan_out_emit"
    /\ Len(console) < Len(EmitOrder(aliases, results))
    /\ LET alias == EmitOrder(aliases, results)[Len(console) + 1]
           result == ODictGet(results, alias, Failure("No response"))
           text == IF result.ok THEN result.content ELSE result.error
       IN  /\ console' = Append(console,
                   [alias |-> alias,
                    heading |-> <<StrUpper(alias), DictGet(_MODEL_ALIASES.some, alias, alias)>>,
                    ok |-> result.ok,
                    text |-> text])
           /\ writes' = IF output_dir THEN Append(writes, <<alias, text>>) ELSE writes
    /\ UNCHANGED <<registryVars, caller, pc, aliases, output_dir, futures, results, synth>>

\* one round of the loop of lines 310-326
Emit ==
    /\ proc = "running"
    /\ pc = "fan_out_emit"
    /\ Len(console) < Len(EmitOrder(aliases, results))
    /\ LET alias == EmitOrder(aliases, results)[Len(console) + 1]
           result == ODictGet(results, alias, Failure("No response"))
       IN  /\ console' = Append(console,
                   [alias |-> alias,
                    heading |-> <<StrUpper(alias), DictGet(_MODEL_ALIASES.some, alias, alias)>>,
                    ok |-> result.ok,
                    text |-> IF result.ok THEN result.content ELSE result.error])
           /\ writes' = IF result.ok /\ output_dir
                        THEN Append(writes, <<alias, result.content>>)
                        ELSE writes
    /\ UNCHANGED <<registryVars, caller, pc, aliases, output_dir, futures, results, synth>>

\* return results (line 328)
FanOutReturn ==
    /\ proc = "running"
    /\ pc = "fan_out_emit"
    /\ Len(console) = Len(EmitOrder(aliases, results))
    /\ pc' = "fan_out_returned"
    /\ UNCHANGED <<registryVars, caller, aliases, output_dir, futures, results,
                   console, writes, synth>>

\* {a: r for a, r in results.items() if r.get('ok')} (line 339)
Successful(d) == SelectSeq(d, LAMBDA kv : kv[2].ok)

\* a variant that is content with one response
SynthRefuses_One(successful) == Len(successful) < 1

\* len(successful) < 2 (line 340)
SynthRefuses(successful) == Len(successful) < 2

\* responses_text (lines 344-347): one block per successful response, in
\* the order of successful.items()
ResponsesText(successful, table) ==
    [k \in 1..Len(successful) |->
        [heading |-> <<StrUpper(successful[k][1]),
                       DictGet(table, successful[k][1], successful[k][1])>>,
         content |-> successful[k][2].content]]

\* a variant that synthesizes from inside the collecting loop
MainMaySynthesize_Early == pc \in {"fan_out_collect", "fan_out_returned"}

\* main calls synthesize where fan_out has returned (lines 510-517)
MainMaySynthesize == pc = "fan_out_returned"

\* synthesize up to the request of generate (lines 339-364)
SynthesizeStart(m) ==
    /\ proc = "running"
    /\ MainMaySynthesize
    /\ synth.state = "idle"
    /\ LET successful == Successful(results)
       IN  IF SynthRefuses(successful)
           THEN /\ synth' = [synth EXCEPT !.state = "refused"]
                /\ pc' = "done"
           ELSE /\ synth' = [synth EXCEPT
                        !.state = "calling",
                        !.calls = synth.calls + 1,
                        !.input = Some([count |-> Len(successful),
                                        responses |-> ResponsesText(successful,
                                                                    _MODEL_ALIASES.some)]),
                        !.model = IF m # None
                                  THEN Some(ResolveIn(_MODEL_ALIASES.some, m.some))
                                  ELSE _DEFAULT_MODEL]
                /\ pc' = "synthesize"
    /\ UNCHANGED <<registryVars, caller, aliases, output_dir, futures, results,
                   console, writes>>

\* the streamed reply ends or fails; synthesize returns (line 365) and main
\* saves synthesis.md (lines 518-520)
SynthesizeFinish(outcome) ==
    /\ proc = "running"
    /\ pc = "synthesize"
    /\ synth.state = "calling"
    /\ synth' = [synth EXCEPT
                    !.state = "returned",
                    !.ret = IF outcome.ok THEN Some(outcome.content) ELSE None,
                    !.saved = outcome.ok /\ output_dir /\ caller = "main"]
    /\ pc' = "done"
    /\ UNCHANGED <<registryVars, caller, aliases, output_dir, futures, results,
                   console, writes>>

\* main without --synthesize (line 516), or a caller that stops here
SkipSynthesize ==
    /\ proc = "running"
    /\ pc = "fan_out_returned"
    /\ synth.state = "idle"
    /\ pc' = "done"
    /\ UNCHANGED <<registryVars, caller, aliases, output_dir, futures, results,
                   console, writes, synth>>

FanInit ==
    /\ config \in FanConfigs
    /\ api_key \in BOOLEAN
    /\ Unloaded
    /\ NoFanOut
    /\ Idle

FanNext ==
    \/ EnsurePanel
    \/ \E od \in BOOLEAN : MainAll(od)
    \/ MainInfo
    \/ \E ok \in BOOLEAN : MainListModels(ok)
    \/ \E m \in SingleModels : MainSingle(m)
    \/ \E o \in BackendOutcomes : MainSingleFinish(o)
    \/ \E as \in AliasLists, od \in BOOLEAN : CallFanOut(as, od)
    \/ \E i \in 1..MaxAliases : QueryModelStart(i)
    \/ \E i \in 1..MaxAliases, o \in BackendOutcomes : QueryModelFinish(i, o)
    \/ \E i \in 1..MaxAliases : Collect(i)
    \/ FanOutJoin
    \/ Emit
    \/ FanOutReturn
    \/ \E m \in SynthModels : SynthesizeStart(m)
    \/ \E o \in BackendOutcomes : SynthesizeFinish(o)
    \/ SkipSynthesize

SpecFanOut == FanInit /\ [][FanNext]_vars

----------------------------------------------------------------------------
(* OpenRouterClient.generate, one call followed step by step: the image   *)
(* loop, the request, the chunks of a streamed reply, the except clause.  *)
(* The call is made as main makes it, the panel loaded and the client     *)
(* constructed.  An image path is named by its position in the list; the  *)
(* file system says of each path whether it is missing, a readable file,  *)
(* or something that exists and cannot be read (a directory).             *)

MaxImages == 2
MaxChunks == 2

ImageStates == {"ok", "missing", "unreadable"}
ImageLists == SeqsUpTo(ImageStates, MaxImages)
Requests == [stream : BOOLEAN, images : ImageLists, model : {None, Some(<<"b">>)}]

\* f"Image not found: {img}" (line 224) and str(e) of the OSError that
\* open() raises in encode_image (line 162)
ImageNotFound(i) == [text |-> "Image not found", path |-> i]
ReadError(i) == [text |-> "OSError", path |-> i]

\* a variant that looks for the file only at the head of the list
ImageStep_FirstOnly(state, i) ==
    IF state = "missing" /\ i = 1 THEN Some([raised |-> FALSE, error |-> ImageNotFound(i)])
    ELSE IF state # "ok" THEN Some([raised |-> TRUE, error |-> ReadError(i)])
    ELSE None

\* one turn of the loop, lines 222-226: the return of line 224, the
\* exception of encode_image, or the next turn
ImageStep(state, i) ==
    IF state = "missing" THEN Some([raised |-> FALSE, error |-> ImageNotFound(i)])
    ELSE IF state = "unreadable" THEN Some([raised |-> TRUE, error |-> ReadError(i)])
    ELSE None

RECURSIVE ImageLoop(_, _)
ImageLoop(images, i) ==
    IF i > Len(images) THEN None
    ELSE IF ImageStep(images[i], i) # None THEN ImageStep(images[i], i)
    ELSE ImageLoop(images, i + 1)

\* a variant whose except clause lets the error through
GenerateOnError_Propagates(g, e) == [g EXCEPT !.pc = "raised"]

\* except Exception as e: return {'ok': False, 'error': str(e)}
GenerateOnError(g, e) == [g EXCEPT !.pc = "returned", !.result = Some(Failure(e))]

\* lines 214-249 and the create() of line 252 or 261
GenerateCall(req) ==
    /\ proc = "running"
    /\ gen.pc = "idle"
    /\ LET model == IF req.model # None THEN req.model.some ELSE _DEFAULT_MODEL.some
           g == [pc |-> "waiting", stream |-> req.stream, images |-> req.images,
                 model |-> model, sent |-> 0, chunks |-> <<>>, printed |-> <<>>,
                 fault |-> None, result |-> None]
           stop == ImageLoop(req.images, 1)
       IN  gen' = IF stop = None THEN [g EXCEPT !.sent = 1]
                  ELSE IF stop.some.raised
                  THEN [GenerateOnError(g, stop.some.error) EXCEPT
                            !.fault = Some(stop.some.error)]
                  ELSE [g EXCEPT !.pc = "returned",
                                 !.result = Some(Failure(stop.some.error))]
    /\ UNCHANGED <<config, _PANEL, _MODEL_ALIASES, _DEFAULT_MODEL, proc, call,
                   api_key, err, single, lazy, fanVars>>

\* one turn of the loop of lines 252-256; a chunk without text is skipped
GenerateChunk(text) ==
    /\ gen.pc = "waiting"
    /\ gen.stream
    /\ Len(gen.chunks) < MaxChunks
    /\ gen' = IF text = "" THEN gen
              ELSE [gen EXCEPT !.chunks = Append(@, text), !.printed = Append(@, text)]
    /\ UNCHANGED <<config, _PANEL, _MODEL_ALIASES, _DEFAULT_MODEL, proc, call,
                   api_key, err, single, lazy, fanVars>>

\* the stream ends: lines 257-259
GenerateStreamEnd ==
    /\ gen.pc = "waiting"
    /\ gen.stream
    /\ gen' = [gen EXCEPT !.pc = "returned",
                          !.printed = Append(@, "\n"),
                          !.result = Some(Success(gen.chunks, gen.model))]
    /\ UNCHANGED <<config, _PANEL, _MODEL_ALIASES, _DEFAULT_MODEL, proc, call,
                   api_key, err, single, lazy, fanVars>>

\* the reply of a request that does not stream: lines 261-269
GenerateReply(content) ==
    /\ gen.pc = "waiting"
    /\ ~gen.stream
    /\ gen' = [gen EXCEPT !.pc = "returned",
                          !.result = Some(Success(content, gen.model))]
    /\ UNCHANGED <<config, _PANEL, _MODEL_ALIASES, _DEFAULT_MODEL, proc, call,
                   api_key, err, single, lazy, fanVars>>

\* create() or the iteration of the stream raises: the key is refused, the
\* connection breaks, the backend reports an error.  In a stream this
\* happens before the first chunk or after any number of them.
GenerateFault(e) ==
    /\ gen.pc = "waiting"
    /\ gen' = [GenerateOnError(gen, e) EXCEPT !.fault = Some(e)]
    /\ UNCHANGED <<config, _PANEL, _MODEL_ALIASES, _DEFAULT_MODEL, proc, call,
                   api_key, err, single, lazy, fanVars>>

GenerateErrors == {"401 unauthorized", "connection reset", "503 no provider"}

GenerateInit ==
    /\ config = [kind |-> "ok",
                 panel |-> <<FanEntry(<<"a">>, <<"p", "/", "x">>),
                             FanEntry(<<"b">>, <<"q", "/", "y">>)>>]
    /\ api_key = TRUE
    /\ proc = "running"
    /\ call = [op |-> "none"]
    /\ LET r == EnsurePanelResult(config, None, None, None)
       IN  /\ _PANEL = r.panel
           /\ _MODEL_ALIASES = r.table
           /\ _DEFAULT_MODEL = r.default
    /\ NoFanOut
    /\ Idle

GenerateNext ==
    \/ \E req \in Requests : GenerateCall(req)
    \/ \E text \in Contents \cup {""} : GenerateChunk(text)
    \/ GenerateStreamEnd
    \/ \E content \in Contents : GenerateReply(content)
    \/ \E e \in GenerateErrors : GenerateFault(e)

SpecGenerate == GenerateInit /\ [][GenerateNext]_vars

----------------------------------------------------------------------------
(* The worker threads of fan_out inside resolve_model (line 292), one      *)
(* statement of _ensure_panel at a time.  _ensure_panel takes no lock, and *)
(* the interpreter may switch threads between any two statements (and does *)
(* while load_panel waits for the file).  fan_out starts with the panel    *)
(* already loaded, as under main, or not yet loaded, as under a caller     *)
(* that did nothing before.                                                *)

MaxWorkers == 2

LazyPanels == {p \in FanPanels : Len(p) > 0}
LazyTokenLists == {as \in SeqsUpTo(FanTokens, MaxWorkers) : Len(as) > 0}

LazyUnchanged == UNCHANGED <<config, proc, call, api_key, err, single, gen, fanVars>>

\* line 135: if _PANEL is None
LazyCheck(t) ==
    /\ t \in 1..Len(lazy.pcs)
    /\ lazy.pcs[t] = "check"
    /\ lazy' = [lazy EXCEPT !.pcs[t] = IF _PANEL = None THEN "load" ELSE "lookup"]
    /\ UNCHANGED <<_PANEL, _MODEL_ALIASES, _DEFAULT_MODEL>>
    /\ LazyUnchanged

\* line 136, right-hand side: load_panel() reads the file
LazyLoad(t) ==
    /\ t \in 1..Len(lazy.pcs)
    /\ lazy.pcs[t] = "load"
    /\ lazy' = [lazy EXCEPT !.pcs[t] = "store_panel",
                            !.locals[t] = Some(config.panel),
                            !.loads = @ + 1]
    /\ UNCHANGED <<_PANEL, _MODEL_ALIASES, _DEFAULT_MODEL>>
    /\ LazyUnchanged

\* line 136, the assignment to _PANEL
LazyStorePanel(t) ==
    /\ t \in 1..Len(lazy.pcs)
    /\ lazy.pcs[t] = "store_panel"
    /\ _PANEL' = lazy.locals[t]
    /\ lazy' = [lazy EXCEPT !.pcs[t] = "store_aliases",
                            !.rewritten = @ \/ _PANEL # None]
    /\ UNCHANGED <<_MODEL_ALIASES, _DEFAULT_MODEL>>
    /\ LazyUnchanged

\* line 137: _MODEL_ALIASES = get_aliases(_PANEL)
LazyStoreAliases(t) ==
    /\ t \in 1..Len(lazy.pcs)
    /\ lazy.pcs[t] = "store_aliases"
    /\ _MODEL_ALIASES' = Some(get_aliases(_PANEL.some))
    /\ lazy' = [lazy EXCEPT !.pcs[t] = "store_default",
                            !.rewritten = @ \/ _MODEL_ALIASES # None]
    /\ UNCHANGED <<_PANEL, _DEFAULT_MODEL>>
    /\ LazyUnchanged

\* lines 138-139: _DEFAULT_MODEL
LazyStoreDefault(t) ==
    /\ t \in 1..Len(lazy.pcs)
    /\ lazy.pcs[t] = "store_default"
    /\ _DEFAULT_MODEL' = Some(DefaultModelOf(_PANEL.some))
    /\ lazy' = [lazy EXCEPT !.pcs[t] = "lookup"]
    /\ UNCHANGED <<_PANEL, _MODEL_ALIASES>>
    /\ LazyUnchanged

\* lines 145-153: the token has no colon, so line 153 reads
\* _MODEL_ALIASES; None.get raises AttributeError in the worker
LazyLookup(t) ==
    /\ t \in 1..Len(lazy.pcs)
    /\ lazy.pcs[t] = "lookup"
    /\ lazy' = IF _MODEL_ALIASES = None
               THEN [lazy EXCEPT !.pcs[t] = "raised", !.torn = TRUE]
               ELSE [lazy EXCEPT !.pcs[t] = "done",
                                 !.rets[t] = Some(ResolveIn(_MODEL_ALIASES.some,
                                                            lazy.tokens[t]))]
    /\ UNCHANGED <<_PANEL, _MODEL_ALIASES, _DEFAULT_MODEL>>
    /\ LazyUnchanged

LazyInit ==
    /\ config \in {[kind |-> "ok", panel |-> p] : p \in LazyPanels}
    /\ api_key = TRUE
    /\ proc = "running"
    /\ call = [op |-> "none"]
    /\ \E preloaded \in BOOLEAN :
           LET r == IF preloaded THEN EnsurePanelResult(config, None, None, None)
                    ELSE [panel |-> None, table |-> None, default |-> None]
           IN  /\ _PANEL = r.panel
               /\ _MODEL_ALIASES = r.table
               /\ _DEFAULT_MODEL = r.default
    /\ NoFanOut
    /\ err = "none"
    /\ single = [mode |-> "none", state |-> "idle", calls |-> 0, result |-> None]
    /\ gen = [pc |-> "idle"]
    /\ \E as \in LazyTokenLists :
           lazy = [pcs |-> [t \in 1..Len(as) |-> "check"],
                   tokens |-> as,
                   locals |-> [t \in 1..Len(as) |-> None],
                   rets |-> [t \in 1..Len(as) |-> None],
                   loads |-> 0, rewritten |-> FALSE, torn |-> FALSE]

LazyNext ==
    \/ \E t \in 1..MaxWorkers : LazyCheck(t)
    \/ \E t \in 1..MaxWorkers : LazyLoad(t)
    \/ \E t \in 1..MaxWorkers : LazyStorePanel(t)
    \/ \E t \in 1..MaxWorkers : LazyStoreAliases(t)
    \/ \E t \in 1..MaxWorkers : LazyStoreDefault(t)
    \/ \E t \in 1..MaxWorkers : LazyLookup(t)

SpecLazy == LazyInit /\ [][LazyNext]_vars

----------------------------------------------------------------------------
(* Claims about the panel registry, checked under SpecRegistry.            *)

ResolveReturned == call.op = "resolve_model" /\ call.outcome = "ok"

\* some panel entry's alias equals the token, letter case aside
NamesPanelAlias(panel, a) ==
    \E i \in 1..Len(panel) : StrLower(panel[i].alias) = StrLower(a)

\* C6: for every colon-free token a that names an alias of the panel and
\* every known variant name v, resolve_model(a + ":" + v) is
\* resolve_model(a) followed by the literal suffix ":" + v.
C6_VariantSuffixLaw ==
    (ResolveReturned /\ HasColon(call.arg)) =>
        LET a == SplitFirstColon(call.arg)[1]
            v == SplitFirstColon(call.arg)[2]
        IN  (v \in {online, nitro, floor, free, extended}
                /\ NamesPanelAlias(_PANEL.some, a))
                => call.ret.some = ResolveIn(_MODEL_ALIASES.some, a) \o <<":">> \o v

C6_Witness ==
    /\ ResolveReturned
    /\ \E a \in DOMAIN _MODEL_ALIASES.some : \E v \in DOMAIN MODEL_VARIANTS :
           /\ call.arg = a \o <<":">> \o v
           /\ StrLower(a) = a
           /\ call.ret.some = _MODEL_ALIASES.some[a] \o <<":">> \o v

\* C7: a token that holds a colon and whose text after the first colon is
\* no known variant name comes back unchanged, also when the text before
\* the colon is a panel alias.
C7_UnknownVariantPassThrough ==
    (ResolveReturned /\ HasColon(call.arg)
        /\ SplitFirstColon(call.arg)[2] \notin {online, nitro, floor, free, extended})
        => call.ret.some = call.arg

C7_Witness ==
    /\ ResolveReturned
    /\ HasColon(call.arg)
    /\ SplitFirstColon(call.arg)[2] = <<"x">>
    /\ SplitFirstColon(call.arg)[1] \in DOMAIN _MODEL_ALIASES.some
    /\ call.ret.some = call.arg

\* two tokens that differ at most in the letter case of the part before the
\* colon, that part being resolved (no colon, or a known variant after it)
SameButAliasCase(t, u) ==
    IF HasColon(t)
    THEN /\ HasColon(u)
         /\ SplitFirstColon(t)[2] = SplitFirstColon(u)[2]
         /\ SplitFirstColon(t)[2] \in DOMAIN MODEL_VARIANTS
         /\ StrLower(SplitFirstColon(t)[1]) = StrLower(SplitFirstColon(u)[1])
    ELSE ~HasColon(u) /\ StrLower(t) = StrLower(u)

AliasPortion(t) == IF HasColon(t) THEN SplitFirstColon(t)[1] ELSE t

\* C8: for every panel, two tokens that differ only in the letter case of
\* the alias portion resolve to the same model id.
C8_CaseInsensitive ==
    ResolveReturned =>
        \A u \in Tokens :
            (SameButAliasCase(call.arg, u)
                /\ NamesPanelAlias(_PANEL.some, AliasPortion(u)))
                => ResolveIn(_MODEL_ALIASES.some, u) = call.ret.some

\* C9: get_enabled_aliases returns exactly the aliases of the entries whose
\* enabled field is true or absent, in panel order.
C9_EnabledAliases ==
    call.op = "get_enabled_aliases" =>
        LET panel == call.arg
            ret == call.ret
            kept == {i \in 1..Len(panel) :
                        "enabled" \notin DOMAIN panel[i] \/ panel[i].enabled = TRUE}
        IN  /\ Len(ret) = Cardinality(kept)
            /\ \E f \in [1..Len(ret) -> 1..Len(panel)] :
                   /\ \A k \in 1..Len(ret) : f[k] \in kept /\ ret[k] = panel[f[k]].alias
                   /\ \A k, l \in 1..Len(ret) : k < l => f[k] < f[l]

C9_Witness ==
    /\ call.op = "get_enabled_aliases"
    /\ Len(call.arg) = 2
    /\ "enabled" \in DOMAIN call.arg[1] /\ call.arg[1].enabled = FALSE
    /\ "enabled" \notin DOMAIN call.arg[2]
    /\ call.ret = <<call.arg[2].alias>>

\* C10 speaks of "a conventional default name"; line 139 knows none, so the
\* statement is written for one alias of the panels standing for it.
ConventionalDefaultName == <<"a">>

FirstEnabledOrFirst(panel, m) ==
    \/ \E i \in 1..Len(panel) :
           /\ EntryEnabled(panel[i])
           /\ \A j \in 1..(i - 1) : ~EntryEnabled(panel[j])
           /\ m = panel[i].model
    \/ /\ \A i \in 1..Len(panel) : ~EntryEnabled(panel[i])
       /\ m = panel[1].model

EnsureReturned == call.op \in {"_ensure_panel", "resolve_model"} /\ _PANEL # None

\* C10 as claimed: the default model of a non-empty panel is the model of
\* the entry with the conventional default alias if there is one, else the
\* first enabled entry's, else the first entry's.
C10_AsClaimed ==
    (EnsureReturned /\ _PANEL.some # <<>>) =>
        LET panel == _PANEL.some
            named == {i \in 1..Len(panel) : panel[i].alias = ConventionalDefaultName}
        IN  /\ _DEFAULT_MODEL # None
            /\ IF named # {}
               THEN \E i \in named : _DEFAULT_MODEL.some = panel[i].model
               ELSE FirstEnabledOrFirst(panel, _DEFAULT_MODEL.some)

\* C10 amended: the default model of a non-empty panel is the first enabled
\* entry's model, else the first entry's model, whatever the aliases are;
\* computing it fails (IndexError) only on an empty panel.
C10_DefaultModel ==
    EnsureReturned =>
        /\ _PANEL.some # <<>> =>
               /\ _DEFAULT_MODEL # None
               /\ FirstEnabledOrFirst(_PANEL.some, _DEFAULT_MODEL.some)
               /\ (call.op = "_ensure_panel" => call.ret = "ok")
        /\ (call.op = "_ensure_panel" /\ call.ret = "IndexError") => _PANEL.some = <<>>

C10_Witness ==
    /\ EnsureReturned
    /\ Len(_PANEL.some) = 2
    /\ ~EntryEnabled(_PANEL.some[1])
    /\ EntryEnabled(_PANEL.some[2])
    /\ _PANEL.some[2].alias # ConventionalDefaultName
    /\ _PANEL.some[1].alias = ConventionalDefaultName
    /\ _PANEL.some[1].model # _PANEL.some[2].model
    /\ _DEFAULT_MODEL = Some(_PANEL.some[2].model)

----------------------------------------------------------------------------
(* Claims about fan_out and synthesize, checked under SpecFanOut.          *)

Distinct(seq) == \A k, l \in 1..Len(seq) : k # l => seq[k] # seq[l]

FanOutHasReturned == pc \in {"fan_out_returned", "synthesize", "done"}

\* C1: whatever order the calls complete in, fan_out prints the result
\* blocks and writes the per-alias files in the order of the alias list it
\* was given, each block showing that alias's entry of the results.
C1_EmissionInListOrder ==
    /\ Len(console) <= Len(aliases)
    /\ \A k \in 1..Len(console) :
           /\ console[k].alias = aliases[k]
           /\ ODictHas(results, aliases[k])
           /\ console[k].ok = ODictGet(results, aliases[k], None).ok
    /\ LET shown == SelectSeq(console, LAMBDA b : b.ok /\ output_dir)
       IN  writes = [k \in 1..Len(shown) |-> <<shown[k].alias, shown[k].text>>]
    /\ FanOutHasReturned => Len(console) = Len(aliases)

C1_Witness ==
    /\ pc = "fan_out_returned"
    /\ aliases = <<(<<"a">>), (<<"b">>), (<<"c">>)>>
    /\ ODictKeys(results) = <<(<<"c">>), (<<"b">>), (<<"a">>)>>
    /\ output_dir
    /\ [k \in 1..Len(console) |-> console[k].alias] = aliases
    /\ [k \in 1..Len(writes) |-> writes[k][1]] = <<(<<"a">>), (<<"c">>)>>

SuccessCount == Cardinality({k \in 1..Len(results) : results[k][2].ok = TRUE})

\* C3: synthesize sends nothing to the backend and returns no content when
\* the results hold fewer than 2 successes, and sends exactly one request
\* when they hold 2 or more.
C3_SynthesisThreshold ==
    /\ synth.state = "idle" => synth.calls = 0
    /\ synth.state # "idle" =>
           IF SuccessCount < 2
           THEN synth.state = "refused" /\ synth.calls = 0 /\ synth.ret = None
           ELSE synth.state \in {"calling", "returned"} /\ synth.calls = 1

C3_Witness ==
    /\ synth.state = "refused"
    /\ SuccessCount = 1
    /\ Len(results) = 3
    /\ synth.calls = 0

\* C4: the synthesis request is sent only when every fan-out call has
\* completed: none is outstanding while it is in flight.
C4_SynthesisAfterJoin ==
    synth.calls > 0 =>
        \A i \in 1..Len(futures) : futures[i].state \in {"done", "collected"}

C4_Witness ==
    /\ synth.state = "calling"
    /\ Len(futures) = 3
    /\ \E i \in 1..3 : ~futures[i].result.ok
    /\ \A i \in 1..3 : futures[i].state = "collected"

\* the blocks of the successful responses, taken in the order of the alias list
ResponsesInListOrder ==
    LET good == SelectSeq(aliases, LAMBDA a : ODictGet(results, a, Failure("none")).ok)
    IN  [k \in 1..Len(good) |->
            [heading |-> <<StrUpper(good[k]), DictGet(_MODEL_ALIASES.some, good[k], good[k])>>,
             content |-> ODictGet(results, good[k], None).content]]

\* C5: the successful responses stand in the meta-prompt in the order of
\* the alias list, so that the meta-prompt does not depend on the order in
\* which the fan-out calls complete.
C5_MetaPromptInListOrder ==
    (synth.input # None /\ Distinct(aliases)) =>
        synth.input.some.responses = ResponsesInListOrder


----------------------------------------------------------------------------
(* Claims about generate, checked under SpecGenerate.                      *)

GenerateReturned == gen.pc = "returned"
MissingImages == {i \in 1..Len(gen.images) : gen.images[i] = "missing"}
UnreadImages == {i \in 1..Len(gen.images) : gen.images[i] # "ok"}
First(S) == CHOOSE i \in S : \A j \in S : i <= j

\* C11 as the claim states it: whenever some path of the image list does
\* not exist, generate returns a Failure whose message names a missing
\* path, and no request was sent, wherever the missing path stands.
C11_AsClaimed ==
    (GenerateReturned /\ MissingImages # {}) =>
        /\ gen.result.some.ok = FALSE
        /\ gen.sent = 0
        /\ gen.result.some.error.text = "Image not found"
        /\ gen.result.some.error.path \in MissingImages

\* C11: whenever some path of the image list does not exist, generate
\* returns a Failure and no request was sent, wherever the missing path
\* stands; the message is about the first path of the list that is missing
\* or cannot be read: "Image not found" naming the missing path when every
\* path before it was read, the read error of the earlier path otherwise.
C11_MissingImage ==
    (GenerateReturned /\ MissingImages # {}) =>
        /\ gen.result.some.ok = FALSE
        /\ gen.sent = 0
        /\ gen.result.some.error =
               IF First(UnreadImages) \in MissingImages
               THEN ImageNotFound(First(UnreadImages))
               ELSE ReadError(First(UnreadImages))

C11_Witness ==
    /\ GenerateReturned
    /\ gen.images = <<"ok", "missing">>
    /\ gen.result = Some(Failure(ImageNotFound(2)))
    /\ gen.sent = 0

\* C12: generate never raises to its caller: an error of the transport,
\* of authentication or reported by the backend, with or without
\* streaming, before the first chunk of a stream or after any number of
\* them, ends the call with a Failure that carries the error's text; a
\* call that has ended has returned a Success or a Failure.
C12_NeverRaises ==
    /\ gen.pc # "raised"
    /\ GenerateReturned =>
           /\ gen.result # None
           /\ \/ gen.result.some.ok = TRUE /\ "content" \in DOMAIN gen.result.some
              \/ gen.result.some.ok = FALSE /\ "error" \in DOMAIN gen.result.some
           /\ gen.fault # None => gen.result = Some(Failure(gen.fault.some))

C12_Witness ==
    /\ GenerateReturned
    /\ gen.stream
    /\ Len(gen.chunks) = MaxChunks
    /\ gen.printed = gen.chunks
    /\ gen.fault = Some("connection reset")
    /\ gen.result = Some(Failure("connection reset"))

----------------------------------------------------------------------------
(* Claims about main's start-up and fan_out's files, under SpecFanOut.     *)

\* requests sent to the backend so far: by the workers of fan_out, by
\* synthesize, by single-model mode and by --list-models
BackendCalls ==
    Cardinality({i \in 1..Len(futures) : futures[i].state # "submitted"})
        + synth.calls + single.calls

MainRun == caller = "main" \/ single.mode # "none"
QueryRun == caller = "main" \/ single.mode = "single"
StartupErrors == {"credential", "config_missing", "config_invalid"}
ConfigUsable == config.kind = "ok"

\* C13 as the claim states it: in every run of main, with the credential
\* missing or the panel configuration missing or malformed the process
\* has ended with a non-zero exit and no backend call was made.
C13_AsClaimed ==
    /\ (MainRun /\ (~api_key \/ ~ConfigUsable)) => (proc = "exit1" /\ BackendCalls = 0)
    /\ err \in StartupErrors => BackendCalls = 0

\* C13: in every run of main that queries a model (single-model mode and
\* --all), a missing credential and a missing or malformed panel
\* configuration end the process with a non-zero exit before any backend
\* call; --list-models needs only the credential and --panel/--aliases
\* only the configuration, each fatal in the same way when missing; no
\* execution reports a credential or configuration error after a backend
\* call, and whatever called the backend had the credential.
C13_FatalAtStartup ==
    /\ (QueryRun /\ (~api_key \/ ~ConfigUsable)) =>
           (proc = "exit1" /\ err \in StartupErrors /\ BackendCalls = 0)
    /\ (single.mode = "list" /\ ~api_key) =>
           (proc = "exit1" /\ err = "credential" /\ BackendCalls = 0)
    /\ (single.mode = "info" /\ ~ConfigUsable) =>
           (proc = "exit1" /\ err = LoadPanelError(config) /\ BackendCalls = 0)
    /\ err \in StartupErrors => (proc = "exit1" /\ BackendCalls = 0)
    /\ BackendCalls > 0 => (api_key /\ (QueryRun => ConfigUsable))

C13_Witness ==
    /\ single.mode = "single"
    /\ api_key
    /\ config.kind = "invalid"
    /\ proc = "exit1"
    /\ err = "config_invalid"
    /\ BackendCalls = 0

\* the files of the output directory after the writes so far: a later
\* write_text replaces the file of an earlier one
FileWritten(alias) == \E k \in 1..Len(writes) : writes[k][1] = alias
FileContent(alias) ==
    writes[CHOOSE k \in 1..Len(writes) :
               /\ writes[k][1] = alias
               /\ \A j \in (k + 1)..Len(writes) : writes[j][1] # alias][2]

\* C14: once fan_out has returned with an output directory, every alias
\* whose outcome is a Success has a file of its name that holds the
\* content of that outcome, no alias whose outcome is a Failure has had a
\* file written, and nothing else was written; without an output
\* directory nothing is ever written.
C14_OutputFiles ==
    /\ ~output_dir => writes = <<>>
    /\ (FanOutHasReturned /\ output_dir) =>
           /\ \A i \in 1..Len(aliases) :
                  LET r == ODictGet(results, aliases[i], None)
                  IN  /\ r.ok => /\ FileWritten(aliases[i])
                                 /\ FileContent(aliases[i]) = r.content
                      /\ ~r.ok => ~FileWritten(aliases[i])
           /\ \A k \in 1..Len(writes) : \E i \in 1..Len(aliases) : writes[k][1] = aliases[i]

C14_Witness ==
    /\ pc = "fan_out_returned"
    /\ output_dir
    /\ aliases = <<(<<"b">>), (<<"a">>)>>
    /\ ODictGet(results, <<"a">>, None) = Success("r2", <<"p", "/", "x">>)
    /\ ODictGet(results, <<"b">>, None).ok = FALSE
    /\ writes = <<(<< <<"a">>, "r2" >>)>>

----------------------------------------------------------------------------
(* Claim about the worker threads and the lazy load, under SpecLazy.       *)

\* C15: under every interleaving of the workers of fan_out, also when the
\* panel is not loaded before fan_out starts, load_panel runs at most
\* once, no global is assigned again once it is set, and no worker reaches
\* the lookup of line 153 with the panel set and the alias table unset.
C15_LoadedOnceAndWhole ==
    /\ lazy.loads <= 1
    /\ ~lazy.rewritten
    /\ ~lazy.torn
    /\ \A t \in 1..Len(lazy.pcs) :
           lazy.pcs[t] = "lookup" => (_PANEL # None => _MODEL_ALIASES # None)

====
